---- MODULE Spec2Model ----
(***************************************************************************)
(* River Level Extreme Conditions Monitor (river_monitor.py).              *)
(*                                                                         *)
(* The model covers the RiverMonitor class: the percentile estimator       *)
(* (calculate_percentiles), the condition classifier (classify_condition), *)
(* the per-site evaluator (check_site_conditions) with its two fetches,    *)
(* and the batch loop (monitor_all_sites).                                 *)
(*                                                                         *)
(* Numbers.  Gauge readings are floats; they are modelled as the integers  *)
(* 1..MaxVal plus the not-a-number marker NaN.  A percentile is the real   *)
(* number count / len * 100; it is kept as the exact fraction num / den    *)
(* (num = count * 100, den = len) and compared with a threshold by cross   *)
(* multiplication.  For samples of up to 7 values and integer thresholds   *)
(* in 0..100 the float comparison of the code and the exact comparison     *)
(* agree, so the rounding of IEEE doubles is not modelled.                 *)
(***************************************************************************)
EXTENDS Integers, Sequences, FiniteSets, TLC

\* ---------------------------------------------------------------- bounds
MaxVal == 2       \* readings are 1..MaxVal (and NaN)
MaxHist == 3      \* rows of a historical frame
MaxSites == 2     \* length of the configured site list

\* ------------------------------------------------------------ data model
\* numpy's nan: np.isnan is true of it and every ordered comparison with it
\* is false.
NaN == 0 - 1

isnan(x) == x = NaN

\* a "<=" written for "<": ties would count as below
lt_or_equal(a, b) == ~isnan(a) /\ ~isnan(b) /\ a <= b

\* IEEE "<" as numpy applies it elementwise (values < current_value)
lt(a, b) == ~isnan(a) /\ ~isnan(b) /\ a < b

Readings == (1..MaxVal) \cup {NaN}

\* A pandas DataFrame as the fetch layer hands it over, or None.
\* rows: first-column values in time order; ncols: number of columns (an
\* empty response is a frame with no columns at all).
NoneDF == [none |-> TRUE, ncols |-> 0, rows |-> <<>>]

DataFrame(n, r) == [none |-> FALSE, ncols |-> n, rows |-> r]

SeqsUpTo(S, n) == UNION {[1..k -> S] : k \in 0..n}

Frames(n) ==
    {DataFrame(1, r) : r \in SeqsUpTo(Readings, n)} \cup {DataFrame(0, <<>>)}

\* Python's None as a percentile, and a numeric percentile num / den
NonePct == [none |-> TRUE, num |-> 0, den |-> 1]

Pct(n, d) == [none |-> FALSE, num |-> n, den |-> d]

\* ------------------------------------------------- calculate_percentiles
\* the NaN filter left out
dropna_keep_all(rows) == rows

\* values[~np.isnan(values)]
dropna(rows) == SelectSeq(rows, LAMBDA x : ~isnan(x))

\* the comparison written as (values <= current_value)
count_not_above(values, current_value) ==
    Len(SelectSeq(values, LAMBDA x : ~isnan(x) /\ ~isnan(current_value)
                                     /\ x <= current_value))

\* (values < current_value).sum()
count_below(values, current_value) ==
    Len(SelectSeq(values, LAMBDA x : lt(x, current_value)))

\* the comparison turned round: (values > current_value)
calculate_percentiles_above(historical_df, current_value) ==
    IF historical_df.none \/ Len(historical_df.rows) = 0
    THEN NonePct
    ELSE LET values == dropna(historical_df.rows)
         IN  IF Len(values) = 0
             THEN NonePct
             ELSE Pct(Len(SelectSeq(values, LAMBDA x : lt(current_value, x))) * 100,
                      Len(values))

calculate_percentiles(historical_df, current_value) ==
    IF historical_df.none \/ Len(historical_df.rows) = 0
    THEN NonePct
    ELSE LET values == dropna(historical_df.rows)
         IN  IF Len(values) = 0
             THEN NonePct
             ELSE Pct(count_below(values, current_value) * 100, Len(values))

\* ------------------------------------------------------------------ state
VARIABLES
    config,        \* binding of the module-global name `config`
    site_numbers,  \* self.site_numbers
    pc,            \* position of monitor_all_sites
    idx,           \* index of the site the loop is at
    results,       \* the list monitor_all_sites builds
    call,          \* the most recent method invocation and its outcome
    prev,          \* the invocation before it
    evaluated,     \* the sites the running batch has evaluated, with outcomes
    mpc,           \* position of main ("none": main is not running)
    local_config,  \* main's local variable `config`
    config_file,   \* the configuration file <name>.py on disk
    wizard         \* how the setup wizard ended, if main ran it

mainvars == <<mpc, local_config, config_file, wizard>>

vars == <<config, site_numbers, pc, idx, results, call, prev, evaluated,
          mpc, local_config, config_file, wizard>>

NoCall == [fn |-> "none"]

\* ----------------------------------------------------------------- config
\* The module-global name `config` that the RiverMonitor methods read.
\* river_monitor.py has no module-level binding of it (main binds a local of
\* the same name), so it is bound only if the importing environment bound it.
\* Both cases are initial states: Unbound, and bound to a module with the
\* attributes of config.py.
Unbound ==
    [bound |-> FALSE, MONITORING_SITES |-> <<>>,
     VERY_LOW_PERCENTILE |-> 0, LOW_FLOW_PERCENTILE |-> 0,
     HIGH_FLOW_PERCENTILE |-> 0, VERY_HIGH_PERCENTILE |-> 0]

Config(sites, vl, lo, hi, vh) ==
    [bound |-> TRUE, MONITORING_SITES |-> sites,
     VERY_LOW_PERCENTILE |-> vl, LOW_FLOW_PERCENTILE |-> lo,
     HIGH_FLOW_PERCENTILE |-> hi, VERY_HIGH_PERCENTILE |-> vh]

\* config.py as shipped
LOW_FLOW_PERCENTILE == 10
HIGH_FLOW_PERCENTILE == 90
VERY_LOW_PERCENTILE == 5
VERY_HIGH_PERCENTILE == 95

DefaultConfig ==
    Config(<<>>, VERY_LOW_PERCENTILE, LOW_FLOW_PERCENTILE,
           HIGH_FLOW_PERCENTILE, VERY_HIGH_PERCENTILE)

SiteIds == {"01646500", "03277200"}

\* A configuration module as load_config returns it, or None; also the
\* content of the file it is loaded from (none: the file does not exist).
\* LOCATION_set: both LOCATION['latitude'] and LOCATION['longitude'] are truthy.
NoneModule ==
    [none |-> TRUE, MONITORING_SITES |-> <<>>, LOCATION_set |-> FALSE,
     VERY_LOW_PERCENTILE |-> 0, LOW_FLOW_PERCENTILE |-> 0,
     HIGH_FLOW_PERCENTILE |-> 0, VERY_HIGH_PERCENTILE |-> 0]

Module(sites, loc, vl, lo, hi, vh) ==
    [none |-> FALSE, MONITORING_SITES |-> sites, LOCATION_set |-> loc,
     VERY_LOW_PERCENTILE |-> vl, LOW_FLOW_PERCENTILE |-> lo,
     HIGH_FLOW_PERCENTILE |-> hi, VERY_HIGH_PERCENTILE |-> vh]

NoWizard == [ret |-> "not run", saved |-> FALSE, u |-> [method |-> "none"]]

\* main has not been entered: the class is used directly
NoMain ==
    /\ mpc = "none"
    /\ local_config = NoneModule
    /\ config_file = NoneModule
    /\ wizard = NoWizard

SiteLists == SeqsUpTo(SiteIds, MaxSites)

\* ---------------------------------------------------- RiverMonitor.__init__
\* self.site_numbers = site_numbers or config.MONITORING_SITES
\* An empty (or None) argument reads the global and raises NameError when the
\* name is unbound, in which case no monitor object exists.
init_raises(arg) == arg = <<>> /\ ~config.bound

init_site_numbers(arg) == IF arg # <<>> THEN arg ELSE config.MONITORING_SITES

Construct(args) ==
    /\ \E arg \in args :
          /\ ~init_raises(arg)
          /\ site_numbers = init_site_numbers(arg)
    /\ pc = "idle"
    /\ idx = 0
    /\ results = <<>>
    /\ call = NoCall
    /\ prev = NoCall
    /\ evaluated = <<>>
    /\ NoMain

\* ------------------------------------------------------ classify_condition
\* percentile <= threshold and percentile >= threshold on num / den
pct_lt(p, t) == p.num < t * p.den

pct_le(p, t) == p.num <= t * p.den

pct_ge(p, t) == p.num >= t * p.den

Returns(sev, desc) == [exc |-> "none", severity |-> sev, description |-> desc]

Raises(e) == [exc |-> e, severity |-> "", description |-> ""]

\* the chain reordered so that the high tests come first
classify_condition_high_first(percentile) ==
    IF percentile.none
    THEN Returns("UNKNOWN", "Insufficient data")
    ELSE IF ~config.bound
    THEN Raises("NameError")
    ELSE IF pct_ge(percentile, config.VERY_HIGH_PERCENTILE)
    THEN Returns("SEVERE HIGH", "Severe flood conditions")
    ELSE IF pct_ge(percentile, config.HIGH_FLOW_PERCENTILE)
    THEN Returns("HIGH", "Above normal flow (flood risk)")
    ELSE IF pct_le(percentile, config.VERY_LOW_PERCENTILE)
    THEN Returns("SEVERE LOW", "Severe drought conditions")
    ELSE IF pct_le(percentile, config.LOW_FLOW_PERCENTILE)
    THEN Returns("LOW", "Below normal flow (drought)")
    ELSE Returns("NORMAL", "Normal flow conditions")

\* Reads the four thresholds from the global `config`; the None test comes
\* before the first read, so only a numeric percentile can hit an unbound name.
classify_condition(percentile) ==
    IF percentile.none
    THEN Returns("UNKNOWN", "Insufficient data")
    ELSE IF ~config.bound
    THEN Raises("NameError")
    ELSE IF pct_le(percentile, config.VERY_LOW_PERCENTILE)
    THEN Returns("SEVERE LOW", "Severe drought conditions")
    ELSE IF pct_le(percentile, config.LOW_FLOW_PERCENTILE)
    THEN Returns("LOW", "Below normal flow (drought)")
    ELSE IF pct_ge(percentile, config.VERY_HIGH_PERCENTILE)
    THEN Returns("SEVERE HIGH", "Severe flood conditions")
    ELSE IF pct_ge(percentile, config.HIGH_FLOW_PERCENTILE)
    THEN Returns("HIGH", "Above normal flow (flood risk)")
    ELSE Returns("NORMAL", "Normal flow conditions")

\* ------------------------------------------------------- the fetch layer
\* What one call of nwis.get_iv / nwis.get_dv does: return a frame or raise.
NwisRaises == [raises |-> TRUE, df |-> NoneDF]

NwisReturns(df) == [raises |-> FALSE, df |-> df]

\* the frame of a site kept from one call and handed out again on the next
\* call for that site, whatever the service returns by then
get_current_data_cached(site_number, iv) ==
    IF call.fn = "check_site_conditions" /\ call.site_number = site_number
    THEN call.ret.current_df
    ELSE IF ~config.bound \/ iv.raises THEN NoneDF ELSE iv.df

\* try: nwis.get_iv(..., parameterCd=config.PARAMETER_CODE, ...)
\* except Exception: return None.  The read of the unbound name happens inside
\* the try block, so it too ends as None.
get_current_data(site_number, iv) ==
    IF ~config.bound \/ iv.raises THEN NoneDF ELSE iv.df

\* try: start_year or config.HISTORICAL_START_YEAR; nwis.get_dv(...)
\* except Exception: return None
get_historical_data(site_number, dv) ==
    IF ~config.bound \/ dv.raises THEN NoneDF ELSE dv.df

\* -------------------------------------------------- descriptive statistics
Range(values) == {values[i] : i \in DOMAIN values}

np_min(values) == CHOOSE x \in Range(values) : \A y \in Range(values) : x <= y

np_max(values) == CHOOSE x \in Range(values) : \A y \in Range(values) : y <= x

\* the k-th smallest element
kth(values, k) ==
    CHOOSE x \in Range(values) :
        /\ Cardinality({i \in DOMAIN values : values[i] < x}) < k
        /\ k <= Cardinality({i \in DOMAIN values : values[i] <= x})

\* np.median: the middle element, or the mean of the two middle elements,
\* as the fraction num / den
np_median(values) ==
    LET n == Len(values)
    IN  IF n % 2 = 1
        THEN [num |-> kth(values, (n + 1) \div 2), den |-> 1]
        ELSE [num |-> kth(values, n \div 2) + kth(values, n \div 2 + 1), den |-> 2]

\* --------------------------------------------------- check_site_conditions
NoReport ==
    [site_number |-> "", current_value |-> NaN, current_time |-> 0,
     percentile |-> NonePct, severity |-> "", description |-> "",
     historical_min |-> NaN, historical_max |-> NaN,
     historical_median |-> [num |-> 0, den |-> 1]]

\* Outcomes of check_site_conditions; calls lists the methods it invoked and
\* current_df / historical_df the frames it got from them.
SiteNone(cur, hist, calls) ==
    [exc |-> "none", none |-> TRUE, report |-> NoReport,
     current_df |-> cur, historical_df |-> hist, calls |-> calls]

SiteRaises(e, cur, hist, calls) ==
    [exc |-> e, none |-> FALSE, report |-> NoReport,
     current_df |-> cur, historical_df |-> hist, calls |-> calls]

SiteReport(rep, cur, hist, calls) ==
    [exc |-> "none", none |-> FALSE, report |-> rep,
     current_df |-> cur, historical_df |-> hist, calls |-> calls]

AllCalls ==
    <<"get_current_data", "get_historical_data",
      "calculate_percentiles", "classify_condition">>

\* the length test left out of `current_df is None or len(current_df) == 0`
no_current_none_only(current_df) == current_df.none

\* a window whose latest reading is NaN treated as no data as well
no_current_or_nan(current_df) ==
    \/ current_df.none
    \/ Len(current_df.rows) = 0
    \/ isnan(current_df.rows[Len(current_df.rows)])

\* current_df is None or len(current_df) == 0
no_current(current_df) == current_df.none \/ Len(current_df.rows) = 0

\* iv and dv are what the two nwis calls do if they are reached.
check_site_conditions(site_number, iv, dv) ==
    LET current_df == get_current_data(site_number, iv)
    IN  IF no_current(current_df)
        THEN SiteNone(current_df, NoneDF, SubSeq(AllCalls, 1, 1))
        ELSE IF Len(current_df.rows) = 0
        THEN \* current_df.iloc[-1, 0] on a frame without rows
             SiteRaises("IndexError", current_df, NoneDF, SubSeq(AllCalls, 1, 1))
        ELSE
        LET current_value == current_df.rows[Len(current_df.rows)]
            current_time == Len(current_df.rows)
            historical_df == get_historical_data(site_number, dv)
        IN  IF historical_df.none
            THEN SiteNone(current_df, historical_df, SubSeq(AllCalls, 1, 2))
            ELSE
            LET percentile == calculate_percentiles(historical_df, current_value)
                cls == classify_condition(percentile)
            IN  IF cls.exc # "none"
                THEN SiteRaises(cls.exc, current_df, historical_df, AllCalls)
                ELSE IF historical_df.ncols = 0
                THEN \* historical_df.iloc[:, 0] on a frame without columns
                     SiteRaises("IndexError", current_df, historical_df, AllCalls)
                ELSE
                LET values == dropna(historical_df.rows)
                IN  IF Len(values) = 0
                    THEN \* np.min of a zero-size array
                         SiteRaises("ValueError", current_df, historical_df, AllCalls)
                    ELSE SiteReport(
                             [site_number |-> site_number,
                              current_value |-> current_value,
                              current_time |-> current_time,
                              percentile |-> percentile,
                              severity |-> cls.severity,
                              description |-> cls.description,
                              historical_min |-> np_min(values),
                              historical_max |-> np_max(values),
                              historical_median |-> np_median(values)],
                             current_df, historical_df, AllCalls)

\* -------------------------------------------------------- monitor_all_sites
\* Responses of the water-data service to one site's two queries.
CurrentResponses ==
    {NwisRaises,
     NwisReturns(DataFrame(0, <<>>)),
     NwisReturns(DataFrame(1, <<2>>)),
     NwisReturns(DataFrame(1, <<2, 1>>)),
     NwisReturns(DataFrame(1, <<1, NaN>>))}

HistoricalResponses ==
    {NwisRaises,
     NwisReturns(DataFrame(0, <<>>)),
     NwisReturns(DataFrame(1, <<>>)),
     NwisReturns(DataFrame(1, <<NaN, NaN>>)),
     NwisReturns(DataFrame(1, <<1, 2>>)),
     NwisReturns(DataFrame(1, <<NaN, 1, 1>>))}

\* the report put in front of the list instead of at its end
collect_front(res, result) ==
    IF result.none THEN res ELSE <<result.report>> \o res

\* if result: results.append(result)
collect(res, result) ==
    IF result.none THEN res ELSE Append(res, result.report)

\* results = []
MonitorStart ==
    /\ pc \in {"idle", "returned", "raised"}
    /\ pc' = "loop"
    /\ idx' = 1
    /\ results' = <<>>
    /\ call' = [fn |-> "monitor_all_sites"]
    /\ evaluated' = <<>>
    /\ UNCHANGED <<config, site_numbers, prev>>
    /\ UNCHANGED mainvars

\* One iteration of `for site_number in self.site_numbers`: the whole of
\* check_site_conditions, then the append if the result is truthy.  An
\* exception leaves the loop and the method.
MonitorStep ==
    /\ pc = "loop"
    /\ idx <= Len(site_numbers)
    /\ \E iv \in CurrentResponses, dv \in HistoricalResponses :
          LET result == check_site_conditions(site_numbers[idx], iv, dv)
          IN  /\ call' = [fn |-> "check_site_conditions",
                          site_number |-> site_numbers[idx],
                          iv |-> iv, dv |-> dv,
                          ret |-> result]
              /\ IF result.exc # "none"
                 THEN /\ pc' = "raised"
                      /\ UNCHANGED <<idx, results, evaluated>>
                 ELSE /\ pc' = pc
                      /\ idx' = idx + 1
                      /\ results' = collect(results, result)
                      /\ evaluated' = Append(evaluated,
                                             [site_number |-> site_numbers[idx],
                                              reported |-> ~result.none,
                                              report |-> result.report])
    /\ UNCHANGED <<config, site_numbers, prev>>
    /\ UNCHANGED mainvars

\* return results
MonitorReturn ==
    /\ pc = "loop"
    /\ idx > Len(site_numbers)
    /\ pc' = "returned"
    /\ UNCHANGED <<config, site_numbers, idx, results, call, prev, evaluated>>
    /\ UNCHANGED mainvars

Init ==
    /\ config \in {Unbound, DefaultConfig}
    /\ Construct(SiteLists)

Next == MonitorStart \/ MonitorStep \/ MonitorReturn

Spec == Init /\ [][Next]_vars

\* What a check_site_conditions call met, read off the service's responses.
IsSiteCall == call.fn = "check_site_conditions"

CurrentFetchFails == ~config.bound \/ call.iv.raises

CurrentWindowEmpty == ~CurrentFetchFails /\ Len(call.iv.df.rows) = 0

HistoryFetchFails ==
    ~CurrentFetchFails /\ ~CurrentWindowEmpty /\ call.dv.raises

HistoryObtainedButEmpty ==
    /\ ~CurrentFetchFails /\ ~CurrentWindowEmpty /\ ~call.dv.raises
    /\ \A i \in DOMAIN call.dv.df.rows : call.dv.df.rows[i] = NaN

\* C4: when the historical sample is obtained but has no rows or only NaN
\* rows, check_site_conditions returns a report with percentile None and
\* severity UNKNOWN, and monitor_all_sites appends that report to its results.
C4_InsufficientHistoryReported ==
    (IsSiteCall /\ HistoryObtainedButEmpty) =>
        /\ call.ret.exc = "none"
        /\ ~call.ret.none
        /\ call.ret.report.percentile.none
        /\ call.ret.report.severity = "UNKNOWN"
        /\ Len(results) > 0
        /\ results[Len(results)] = call.ret.report

\* C5: no outcome of one site's evaluation raises out of monitor_all_sites or
\* stops the batch; the loop goes on to the remaining sites and returns.
C5_BatchNeverAborts ==
    /\ pc # "raised"
    /\ IsSiteCall => call.ret.exc = "none"

\* C6: check_site_conditions returns None without raising when the current
\* fetch fails, when the current window has no points, or when the historical
\* fetch fails; in the first two cases nothing is ranked or classified (the
\* history is not even fetched).
C6_SoftNoData ==
    IsSiteCall =>
        /\ (CurrentFetchFails \/ CurrentWindowEmpty) =>
               /\ call.ret.exc = "none"
               /\ call.ret.none
               /\ call.ret.calls = <<"get_current_data">>
        /\ HistoryFetchFails =>
               /\ call.ret.exc = "none"
               /\ call.ret.none
               /\ call.ret.calls = <<"get_current_data", "get_historical_data">>
        /\ call.ret.none => pc # "raised"

\* C6 witness: with thresholds bound, the second site of a batch, whose
\* current window holds a reading and whose historical fetch raised, has been
\* answered None, after a first site that was answered None as well.
C6_Witness ==
    /\ IsSiteCall
    /\ config.bound
    /\ idx = 3
    /\ results = <<>>
    /\ call.iv = NwisReturns(DataFrame(1, <<2>>))
    /\ call.dv = NwisRaises
    /\ call.ret.none

\* The reports of the evaluations that gave one, in the order of evaluation.
Reported == SelectSeq(evaluated, LAMBDA e : e.reported)

\* C13: when monitor_all_sites completes, every configured site has been
\* evaluated exactly once, in configured order, and the result list is exactly
\* the reports of the sites whose evaluation returned one, in that order: a
\* site answered None has no entry and no entry is for another site.
C13_ResultsAreReportedSubsequence ==
    pc = "returned" =>
        /\ Len(evaluated) = Len(site_numbers)
        /\ \A i \in DOMAIN evaluated : evaluated[i].site_number = site_numbers[i]
        /\ Len(results) = Len(Reported)
        /\ \A i \in DOMAIN results :
               /\ results[i] = Reported[i].report
               /\ results[i].site_number = Reported[i].site_number

\* C13 witness: a batch over two different sites has completed in which the
\* first site was answered None and the second gave a report: the result list
\* holds that one report.
C13_Witness ==
    /\ pc = "returned"
    /\ site_numbers = <<"03277200", "01646500">>
    /\ ~evaluated[1].reported
    /\ evaluated[2].reported
    /\ Len(results) = 1
    /\ results[1].site_number = "01646500"

\* ------------------------------------------------ the site evaluator alone
\* A caller evaluates single sites, in any order, one call after the other.
CallCheckSiteConditions ==
    \E site_number \in SiteIds, iv \in CurrentResponses, dv \in HistoricalResponses :
        /\ call' = [fn |-> "check_site_conditions",
                    site_number |-> site_number,
                    iv |-> iv, dv |-> dv,
                    ret |-> check_site_conditions(site_number, iv, dv)]
        /\ prev' = call
        /\ UNCHANGED <<config, site_numbers, pc, idx, results, evaluated>>
        /\ UNCHANGED mainvars

\* Thresholds in force during the evaluations: the shipped ones, a very-low
\* threshold of 0, one below 0, and an inverted setting.
EvaluateConfigs ==
    {Unbound, DefaultConfig,
     Config(<<>>, 0, LOW_FLOW_PERCENTILE, HIGH_FLOW_PERCENTILE, VERY_HIGH_PERCENTILE),
     Config(<<>>, 0 - 5, LOW_FLOW_PERCENTILE, HIGH_FLOW_PERCENTILE, VERY_HIGH_PERCENTILE),
     Config(<<>>, HIGH_FLOW_PERCENTILE, HIGH_FLOW_PERCENTILE,
            LOW_FLOW_PERCENTILE, LOW_FLOW_PERCENTILE)}

EvaluateInit ==
    /\ config \in EvaluateConfigs
    /\ Construct({<<"01646500", "03277200">>})

EvaluateNext == CallCheckSiteConditions

SpecEvaluate == EvaluateInit /\ [][EvaluateNext]_vars

\* The part of an outcome the caller sees, the site number aside.
Outcome(r) ==
    <<r.exc, r.none, r.report.current_value, r.report.current_time,
      r.report.percentile, r.report.severity, r.report.description,
      r.report.historical_min, r.report.historical_max,
      r.report.historical_median>>

C14_NaNReadingRanksZero ==
    (/\ IsSiteCall
     /\ ~CurrentFetchFails
     /\ Len(call.iv.df.rows) > 0
     /\ call.iv.df.rows[Len(call.iv.df.rows)] = NaN
     /\ ~call.dv.raises
     /\ \E i \in DOMAIN call.dv.df.rows : call.dv.df.rows[i] # NaN)
    => /\ call.ret.exc = "none"
       /\ ~call.ret.none
       /\ call.ret.report.current_value = NaN
       /\ ~call.ret.report.percentile.none
       /\ call.ret.report.percentile.num = 0
       /\ call.ret.report.severity # "UNKNOWN"
       /\ config.VERY_LOW_PERCENTILE >= 0 =>
              call.ret.report.severity = "SEVERE LOW"

\* C14 witness: under a very-low threshold of 0 a window ending in NaN has
\* been evaluated against the history 1, 2 and reported SEVERE LOW.
C14_Witness ==
    /\ IsSiteCall
    /\ config.bound /\ config.VERY_LOW_PERCENTILE = 0
    /\ call.iv = NwisReturns(DataFrame(1, <<1, NaN>>))
    /\ call.dv = NwisReturns(DataFrame(1, <<1, 2>>))
    /\ call.ret.report.percentile = Pct(0, 2)
    /\ call.ret.report.severity = "SEVERE LOW"

\* ------------------------------------------- the percentile estimator alone
\* A caller applies calculate_percentiles to a frame and a current value.
CallCalculatePercentiles ==
    \E historical_df \in Frames(MaxHist) \cup {NoneDF}, current_value \in Readings :
        /\ call' = [fn |-> "calculate_percentiles",
                    historical_df |-> historical_df,
                    current_value |-> current_value,
                    ret |-> calculate_percentiles(historical_df, current_value)]
        /\ UNCHANGED <<config, site_numbers, pc, idx, results, prev, evaluated>>
        /\ UNCHANGED mainvars

PercentileInit ==
    /\ config \in {Unbound, DefaultConfig}
    /\ Construct({<<"01646500">>})

PercentileNext == CallCalculatePercentiles

SpecPercentile == PercentileInit /\ [][PercentileNext]_vars

\* What a calculate_percentiles call was given, read off the frame by index.
IsPercentileCall == call.fn = "calculate_percentiles"

ValidRows(df) == {i \in DOMAIN df.rows : df.rows[i] # NaN}

RowsBelow(df, v) == {i \in ValidRows(df) : v # NaN /\ df.rows[i] < v}

HasValidRow(df) == ~df.none /\ ValidRows(df) # {}

\* C1: for a historical sample with at least one non-NaN value and any
\* current value v, calculate_percentiles returns
\* (non-NaN values strictly below v) / (non-NaN values) x 100: NaN entries are
\* in neither count, values equal to v are not below, nothing is interpolated.
C1_StrictRank ==
    (IsPercentileCall /\ HasValidRow(call.historical_df)) =>
        /\ ~call.ret.none
        /\ call.ret.den > 0
        /\ call.ret.num * Cardinality(ValidRows(call.historical_df))
             = 100 * Cardinality(RowsBelow(call.historical_df, call.current_value))
               * call.ret.den

\* C1 witness: a sample holding a NaN, a value below v and a value equal to
\* v has been ranked: one of two valid values is below, 50.
C1_Witness ==
    /\ IsPercentileCall
    /\ call.historical_df = DataFrame(1, <<NaN, 1, 2>>)
    /\ call.current_value = 2
    /\ call.ret = Pct(100, 2)

\* C2: calculate_percentiles returns None (never 0, never an error) when the
\* historical sample is absent, has no entries, or holds only NaN entries,
\* whatever the current value.
C2_UnavailableWhenNoHistory ==
    (IsPercentileCall /\ ~HasValidRow(call.historical_df)) =>
        call.ret = NonePct

\* C2 witness: an all-NaN sample of two entries, an empty frame and an absent
\* frame are each answered with None.
C2_Witness ==
    /\ IsPercentileCall
    /\ call.historical_df = DataFrame(1, <<NaN, NaN>>)
    /\ call.current_value = 1
    /\ call.ret.none

\* C7: for a non-empty filtered sample the percentile is within [0, 100]; it
\* is 0 when v is at or below the minimum; it is 100 only when v is strictly
\* above every value, so v equal to the maximum gives less than 100.
C7_RangeAndEnds ==
    (IsPercentileCall /\ HasValidRow(call.historical_df)) =>
        LET df == call.historical_df
            v == call.current_value
            r == call.ret
        IN  /\ ~r.none
            /\ 0 <= r.num /\ r.num <= 100 * r.den
            /\ (v # NaN /\ \A i \in ValidRows(df) : v <= df.rows[i]) => r.num = 0
            /\ r.num = 100 * r.den =>
                   (v # NaN /\ \A i \in ValidRows(df) : df.rows[i] < v)
            /\ (v # NaN /\ \E i \in ValidRows(df) : df.rows[i] = v
                         /\ \A j \in ValidRows(df) : df.rows[j] <= v)
                   => r.num < 100 * r.den

\* C7 witness: v equal to the maximum of a sample with smaller values ranks
\* strictly between 0 and 100.
C7_Witness ==
    /\ IsPercentileCall
    /\ call.historical_df = DataFrame(1, <<1, 2, 1>>)
    /\ call.current_value = 2
    /\ 0 < call.ret.num /\ call.ret.num < 100 * call.ret.den

\* C8: for a fixed sample with at least one non-NaN value the percentile never
\* decreases as the current value grows: v1 <= v2 implies
\* percentile(H, v1) <= percentile(H, v2).
C8_Monotone ==
    (IsPercentileCall /\ HasValidRow(call.historical_df)) =>
        \A v2 \in 1..MaxVal :
            (call.current_value # NaN /\ call.current_value <= v2) =>
                LET r2 == calculate_percentiles(call.historical_df, v2)
                IN  call.ret.num * r2.den <= r2.num * call.ret.den

\* C8 witness: a sample has been ranked at a value for which a larger value
\* ranks strictly higher.
C8_Witness ==
    /\ IsPercentileCall
    /\ call.historical_df = DataFrame(1, <<1, NaN, 2>>)
    /\ call.current_value = 1
    /\ call.ret = Pct(0, 2)
    /\ calculate_percentiles(call.historical_df, 2) = Pct(100, 2)

\* ------------------------------------------------ the classifier alone
\* Threshold settings a configuration file may hold: every combination of
\* these values, ordered or not, and the shipped defaults.
ThresholdValues == {10, 50, 90}

ThresholdConfigs ==
    {Config(<<>>, vl, lo, hi, vh) : vl \in ThresholdValues, lo \in ThresholdValues,
                                   hi \in ThresholdValues, vh \in ThresholdValues}
    \cup {DefaultConfig}

\* Percentiles handed to the classifier: whole numbers on, between and
\* beyond the thresholds, and thirds as the estimator produces them.
PercentileInputs ==
    {Pct(n, 1) : n \in {0, 5, 7, 10, 30, 50, 70, 90, 93, 95, 100}}
    \cup {Pct(100, 3), Pct(200, 3), NonePct}

CallClassifyCondition ==
    \E percentile \in PercentileInputs :
        /\ call' = [fn |-> "classify_condition",
                    percentile |-> percentile,
                    ret |-> classify_condition(percentile)]
        /\ UNCHANGED <<config, site_numbers, pc, idx, results, prev, evaluated>>
        /\ UNCHANGED mainvars

ClassifyInit ==
    /\ config \in ThresholdConfigs \cup {Unbound}
    /\ Construct({<<"01646500">>})

ClassifyNext == CallClassifyCondition

SpecClassify == ClassifyInit /\ [][ClassifyNext]_vars

IsClassifyCall == call.fn = "classify_condition"

\* The decision table of the classifier: rule i applies to percentile p under
\* the thresholds in force; rule 5 is the catch-all.
RuleApplies(i, p) ==
    CASE i = 1 -> p.num <= config.VERY_LOW_PERCENTILE * p.den
      [] i = 2 -> p.num <= config.LOW_FLOW_PERCENTILE * p.den
      [] i = 3 -> p.num >= config.VERY_HIGH_PERCENTILE * p.den
      [] i = 4 -> p.num >= config.HIGH_FLOW_PERCENTILE * p.den
      [] OTHER -> TRUE

RuleLabel(i) ==
    CASE i = 1 -> <<"SEVERE LOW", "Severe drought conditions">>
      [] i = 2 -> <<"LOW", "Below normal flow (drought)">>
      [] i = 3 -> <<"SEVERE HIGH", "Severe flood conditions">>
      [] i = 4 -> <<"HIGH", "Above normal flow (flood risk)">>
      [] OTHER -> <<"NORMAL", "Normal flow conditions">>

FirstRule(p) ==
    CHOOSE i \in 1..5 : RuleApplies(i, p) /\ \A j \in 1..(i - 1) : ~RuleApplies(j, p)

\* C3: classify_condition is an ordered first-match decision with inclusive
\* comparisons.  A None percentile gives UNKNOWN "Insufficient data" whatever
\* the thresholds (also with none bound); a numeric percentile under bound
\* thresholds gives the label and description of the first rule, in the order
\* <= very-low, <= low, >= very-high, >= high, otherwise, that applies to it,
\* so a percentile equal to a threshold is in that threshold's tier.
C3_OrderedFirstMatch ==
    IsClassifyCall =>
        /\ call.percentile.none =>
               /\ call.ret.exc = "none"
               /\ <<call.ret.severity, call.ret.description>>
                    = <<"UNKNOWN", "Insufficient data">>
        /\ (~call.percentile.none /\ config.bound) =>
               /\ call.ret.exc = "none"
               /\ <<call.ret.severity, call.ret.description>>
                    = RuleLabel(FirstRule(call.percentile))

\* C3 witness: under the shipped thresholds a percentile of exactly 5, the
\* very-low threshold, has been classified SEVERE LOW.
C3_Witness ==
    /\ IsClassifyCall
    /\ config = DefaultConfig
    /\ call.percentile = Pct(5, 1)
    /\ call.ret = Returns("SEVERE LOW", "Severe drought conditions")

LowStyle(p) == RuleApplies(1, p) \/ RuleApplies(2, p)

HighStyle(p) == RuleApplies(3, p) \/ RuleApplies(4, p)

\* C9: for any four threshold values in any order, classify_condition on a
\* numeric percentile does not fail and returns one of the five severities
\* other than UNKNOWN; when the percentile meets both a low-style and a
\* high-style test the low-style result is returned, SEVERE LOW before LOW.
C9_MalformedThresholds ==
    (IsClassifyCall /\ ~call.percentile.none /\ config.bound) =>
        /\ call.ret.exc = "none"
        /\ call.ret.severity \in {"SEVERE LOW", "LOW", "NORMAL", "HIGH", "SEVERE HIGH"}
        /\ (LowStyle(call.percentile) /\ HighStyle(call.percentile)) =>
               call.ret.severity
                 = (IF RuleApplies(1, call.percentile) THEN "SEVERE LOW" ELSE "LOW")

\* C9 witness: with very-low above very-high a percentile between the two
\* meets both the very-low and the very-high test and is classified SEVERE LOW.
C9_Witness ==
    /\ IsClassifyCall
    /\ config = Config(<<>>, 90, 90, 10, 10)
    /\ call.percentile = Pct(50, 1)
    /\ LowStyle(call.percentile) /\ HighStyle(call.percentile)
    /\ call.ret.severity = "SEVERE LOW"

\* ------------------------------------------------------------ setup wizard
\* save_configuration writes the sites and the location into a file that
\* otherwise carries the shipped thresholds.
save_configuration(sites, located) ==
    Module(sites, located, VERY_LOW_PERCENTILE, LOW_FLOW_PERCENTILE,
           HIGH_FLOW_PERCENTILE, VERY_HIGH_PERCENTILE)

\* The conversion of the chosen numbers into site numbers: a number outside
\* 1..len(sites_df) is reported and skipped, a site already chosen is skipped.
RECURSIVE pick_sites(_, _, _)
pick_sites(sites_df, picks, selected) ==
    IF picks = <<>>
    THEN selected
    ELSE LET i == Head(picks)
             next == IF i >= 1 /\ i <= Len(sites_df)
                        /\ sites_df[i] \notin Range(selected)
                     THEN Append(selected, sites_df[i])
                     ELSE selected
         IN  pick_sites(sites_df, Tail(picks), next)

\* select_gauges: None on 'q', otherwise the sites of the answer that ends
\* the input loop ('all' is the answer 1..len(sites_df)).
NoSelection == [none |-> TRUE, sites |-> <<>>]

select_gauges(sites_df, selection) ==
    IF selection.quit
    THEN NoSelection
    ELSE [none |-> FALSE, sites |-> pick_sites(sites_df, selection.picks, <<>>)]

\* What the user types and what the services answer during one wizard run.
\* method: the choice of step 1; located: the address was geocoded, or both
\* coordinates were parsed and are non-zero; radius_valid: the radius input is
\* empty or an integer; gauges: the sites find_nearby_gauges returns (none
\* when the search fails or finds nothing); selection: the gauge selection;
\* confirm: the answer to "Save this configuration?".
GaugeResponses == {<<>>, <<"01646500">>, <<"01646500", "03277200">>}

Selections ==
    {[quit |-> TRUE, picks |-> <<>>]}
    \cup {[quit |-> FALSE, picks |-> ps] : ps \in SeqsUpTo(1..3, 2)}

WizardInputs ==
    [method : {"1", "2", "3"}, located : BOOLEAN, radius_valid : BOOLEAN,
     gauges : GaugeResponses, selection : Selections, confirm : {"y", "n"}]

\* The selection loop only ends on 'q' or on an answer with a valid choice.
EndsSelection(u) ==
    u.selection.quit \/ select_gauges(u.gauges, u.selection).sites # <<>>

WizardOutcome(ret, saved, file) == [ret |-> ret, saved |-> saved, file |-> file]

\* the empty configuration saved and reported as a success
run_wizard_true_on_empty(u) ==
    LET located == u.method \in {"1", "2"} /\ u.located
        searched == located /\ u.gauges # <<>>
        choice == select_gauges(u.gauges, u.selection)
        selected_sites == IF searched THEN choice.sites ELSE <<>>
    IN  IF located /\ ~u.radius_valid
        THEN WizardOutcome("raised", FALSE, NoneModule)
        ELSE IF searched /\ choice.none
        THEN WizardOutcome("False", FALSE, NoneModule)
        ELSE IF selected_sites # <<>>
        THEN IF u.confirm = "y"
             THEN WizardOutcome("True", TRUE,
                                save_configuration(selected_sites, located))
             ELSE WizardOutcome("False", FALSE, NoneModule)
        ELSE WizardOutcome("True", TRUE, save_configuration(<<>>, located))

\* run_wizard, from the first prompt to its return value.  ret is "True",
\* "False" or "raised" (int() of a radius that is no number); saved tells
\* whether save_configuration ran and file what it wrote.
run_wizard(u) ==
    LET located == u.method \in {"1", "2"} /\ u.located
        searched == located /\ u.gauges # <<>>
        choice == select_gauges(u.gauges, u.selection)
        selected_sites == IF searched THEN choice.sites ELSE <<>>
    IN  IF located /\ ~u.radius_valid
        THEN WizardOutcome("raised", FALSE, NoneModule)
        ELSE IF searched /\ choice.none
        THEN WizardOutcome("False", FALSE, NoneModule)
        ELSE IF selected_sites # <<>>
        THEN IF u.confirm = "y"
             THEN WizardOutcome("True", TRUE,
                                save_configuration(selected_sites, located))
             ELSE WizardOutcome("False", FALSE, NoneModule)
        ELSE WizardOutcome("False", TRUE, save_configuration(<<>>, located))

\* --------------------------------------------------------------------- main
\* load_config: None when the file does not exist, else the executed module
load_config(file) == file

\* not MONITORING_SITES and not (latitude and longitude)
check_first_run(config_module) ==
    config_module.MONITORING_SITES = <<>> /\ ~config_module.LOCATION_set

\* nearby_sites['site_no'].head(5)
NearbyLimit == 5

MaxNearby == 6    \* sites the nearby search returns

NearbyPool ==
    <<"03277200", "03292494", "03293000", "03293500", "03294500",
      "03294600", "03298000", "03301500">>

NoNearby == [none |-> TRUE, sites |-> <<>>]

\* What nwis.what_sites does: raise, or return the first n sites of the pool.
NearbyResponses ==
    {[raises |-> TRUE, sites |-> <<>>]}
    \cup {[raises |-> FALSE, sites |-> SubSeq(NearbyPool, 1, n)] : n \in 0..MaxNearby}

\* try: nwis.what_sites(..., parameterCd=config.PARAMETER_CODE, ...)
\* except Exception: return None
find_nearby_sites(resp) ==
    IF ~config.bound \/ resp.raises
    THEN NoNearby
    ELSE [none |-> FALSE, sites |-> resp.sites]

head(sites, n) == SubSeq(sites, 1, IF Len(sites) < n THEN Len(sites) ELSE n)

\* --list-configs: print the configuration files and return
MainListConfigs ==
    /\ mpc = "start"
    /\ mpc' = "exit"
    /\ UNCHANGED <<config, site_numbers, pc, idx, results, call, prev, evaluated,
                   local_config, config_file, wizard>>

\* config = load_config(args.config), the None test and check_first_run, up
\* to the prompt or to the construction of the monitor
MainLoadConfig ==
    /\ mpc = "start"
    /\ local_config' = load_config(config_file)
    /\ mpc' = IF local_config'.none THEN "exit"
              ELSE IF check_first_run(local_config') THEN "prompt"
              ELSE "construct"
    /\ UNCHANGED <<config, site_numbers, pc, idx, results, call, prev, evaluated,
                   config_file, wizard>>

\* any answer but 'y' to "Run setup wizard?"
MainDeclineWizard ==
    /\ mpc = "prompt"
    /\ mpc' = "exit"
    /\ UNCHANGED <<config, site_numbers, pc, idx, results, call, prev, evaluated,
                   local_config, config_file, wizard>>

\* 'y': run_wizard; on True reload the configuration and go on, on False or
\* on an exception print and return
MainRunWizard ==
    /\ mpc = "prompt"
    /\ \E u \in WizardInputs :
          /\ EndsSelection(u)
          /\ LET w == run_wizard(u)
             IN  /\ wizard' = [ret |-> w.ret, saved |-> w.saved, u |-> u]
                 /\ config_file' = IF w.saved THEN w.file ELSE config_file
                 /\ IF w.ret = "True"
                    THEN /\ local_config' = load_config(config_file')
                         /\ mpc' = "construct"
                    ELSE /\ local_config' = local_config
                         /\ mpc' = "exit"
    /\ UNCHANGED <<config, site_numbers, pc, idx, results, call, prev, evaluated>>

\* monitor = RiverMonitor(config.MONITORING_SITES), the nearby search if the
\* location is set, the fallback to the first nearby sites, and the test
\* that there is a site to monitor
MainConstruct ==
    /\ mpc = "construct"
    /\ IF init_raises(local_config.MONITORING_SITES)
       THEN /\ mpc' = "raised"
            /\ call' = [fn |-> "RiverMonitor", exc |-> "NameError"]
            /\ UNCHANGED site_numbers
       ELSE LET constructed == init_site_numbers(local_config.MONITORING_SITES)
            IN  IF local_config.LOCATION_set
                THEN \E resp \in NearbyResponses :
                        LET nearby_sites == find_nearby_sites(resp)
                        IN  /\ call' = [fn |-> "find_nearby_sites",
                                        resp |-> resp, ret |-> nearby_sites]
                            /\ site_numbers' =
                                 IF /\ ~nearby_sites.none
                                    /\ Len(nearby_sites.sites) > 0
                                    /\ constructed = <<>>
                                 THEN head(nearby_sites.sites, NearbyLimit)
                                 ELSE constructed
                            /\ mpc' = IF site_numbers' = <<>> THEN "exit"
                                      ELSE "monitor"
                ELSE /\ call' = [fn |-> "RiverMonitor", exc |-> "none"]
                     /\ site_numbers' = constructed
                     /\ mpc' = IF constructed = <<>> THEN "exit" ELSE "monitor"
    /\ UNCHANGED <<config, pc, idx, results, prev, evaluated,
                   local_config, config_file, wizard>>

\* results = monitor.monitor_all_sites(), step by step
MainMonitorStart == mpc = "monitor" /\ pc = "idle" /\ MonitorStart

MainMonitorStep == mpc = "monitor" /\ MonitorStep

MainMonitorReturn == mpc = "monitor" /\ MonitorReturn

\* print_report(results), or the "No data available" line, and the end
MainReport ==
    /\ mpc = "monitor"
    /\ pc = "returned"
    /\ mpc' = "exit"
    /\ UNCHANGED <<config, site_numbers, pc, idx, results, call, prev, evaluated,
                   local_config, config_file, wizard>>

\* an exception of monitor_all_sites is not caught in main
MainPropagate ==
    /\ mpc = "monitor"
    /\ pc = "raised"
    /\ mpc' = "raised"
    /\ UNCHANGED <<config, site_numbers, pc, idx, results, call, prev, evaluated,
                   local_config, config_file, wizard>>

\* Configuration files main may find: none, the shipped config.py, files
\* with sites, with a location, and with thresholds of their own.
InitialFiles ==
    {NoneModule,
     Module(<<>>, FALSE, VERY_LOW_PERCENTILE, LOW_FLOW_PERCENTILE,
            HIGH_FLOW_PERCENTILE, VERY_HIGH_PERCENTILE),
     Module(<<"01646500">>, FALSE, VERY_LOW_PERCENTILE, LOW_FLOW_PERCENTILE,
            HIGH_FLOW_PERCENTILE, VERY_HIGH_PERCENTILE),
     Module(<<>>, TRUE, VERY_LOW_PERCENTILE, LOW_FLOW_PERCENTILE,
            HIGH_FLOW_PERCENTILE, VERY_HIGH_PERCENTILE),
     Module(<<"01646500", "03277200">>, TRUE, 10, 50, 50, 90)}

\* python river_monitor.py: the module is fresh, its global `config` is
\* unbound; main called by an importer may find it bound.
MainInit ==
    /\ config \in {Unbound, DefaultConfig}
    /\ config_file \in InitialFiles
    /\ mpc = "start"
    /\ local_config = NoneModule
    /\ wizard = NoWizard
    /\ site_numbers = <<>>
    /\ pc = "idle"
    /\ idx = 0
    /\ results = <<>>
    /\ call = NoCall
    /\ prev = NoCall
    /\ evaluated = <<>>

MainNext ==
    \/ MainListConfigs
    \/ MainLoadConfig
    \/ MainDeclineWizard
    \/ MainRunWizard
    \/ MainConstruct
    \/ MainMonitorStart
    \/ MainMonitorStep
    \/ MainMonitorReturn
    \/ MainReport
    \/ MainPropagate

SpecMain == MainInit /\ [][MainNext]_vars

\* Both fetches of the site call get data from the service: a current window
\* with a row and a history with a non-NaN row.
FetchesSucceed ==
    /\ IsSiteCall
    /\ ~call.iv.raises /\ Len(call.iv.df.rows) > 0
    /\ ~call.dv.raises
    /\ \E i \in DOMAIN call.dv.df.rows : call.dv.df.rows[i] # NaN

\* C11: in a run started through main with a configuration that loaded, the
\* name `config` the RiverMonitor methods read is bound to that configuration:
\* while main monitors, the thresholds in force are the loaded ones, and a site
\* whose two fetches succeed is evaluated to a report, neither None nor an
\* exception.
C11_MethodsReadLoadedConfig ==
    (mpc = "monitor" /\ ~local_config.none) =>
        /\ config.bound
        /\ config.VERY_LOW_PERCENTILE = local_config.VERY_LOW_PERCENTILE
        /\ config.LOW_FLOW_PERCENTILE = local_config.LOW_FLOW_PERCENTILE
        /\ config.HIGH_FLOW_PERCENTILE = local_config.HIGH_FLOW_PERCENTILE
        /\ config.VERY_HIGH_PERCENTILE = local_config.VERY_HIGH_PERCENTILE
        /\ FetchesSucceed => (call.ret.exc = "none" /\ ~call.ret.none)

\* C12: when the loaded configuration has no sites but a location, main does
\* not raise, and if the nearby search returns at least one site the monitored
\* sites are the first up to five of them and main goes on to monitor them.
C12_NearbyFallback ==
    (/\ ~local_config.none
     /\ local_config.MONITORING_SITES = <<>>
     /\ local_config.LOCATION_set)
    => /\ mpc # "raised"
       /\ (/\ call.fn = "find_nearby_sites"
           /\ ~call.resp.raises
           /\ Len(call.resp.sites) > 0)
          => /\ mpc = "monitor"
             /\ Len(site_numbers) <= 5
             /\ Len(site_numbers) <= Len(call.resp.sites)
             /\ Len(site_numbers) = 5 \/ Len(site_numbers) = Len(call.resp.sites)
             /\ \A i \in DOMAIN site_numbers : site_numbers[i] = call.resp.sites[i]

WizardRan == wizard.ret # "not run"

\* C15, first part: run_wizard returns True only after a 'y' confirmation
\* and a save of a non-empty site list.
C15_TrueOnlyAfterSave ==
    wizard.ret = "True" =>
        /\ wizard.saved
        /\ wizard.u.confirm = "y"
        /\ config_file.MONITORING_SITES # <<>>

\* C15, last part: after the wizard main reloads and goes on to the monitor
\* only when the wizard saved at least one site.
C15_MainGoesOnOnlyAfterSave ==
    (WizardRan /\ mpc \in {"construct", "monitor", "raised"}) =>
        /\ wizard.ret = "True"
        /\ local_config = config_file
        /\ local_config.MONITORING_SITES # <<>>

\* The wizard run had a location: an address that was geocoded, or two
\* coordinates that were parsed and are not zero.
HadLocation == wizard.u.method \in {"1", "2"} /\ wizard.u.located

\* The radius prompt was reached and answered with something int() rejects.
BadRadius == HadLocation /\ ~wizard.u.radius_valid

\* The paths the claim names, read off the wizard's inputs.
SelectionQuit ==
    HadLocation /\ ~BadRadius /\ wizard.u.gauges # <<>> /\ wizard.u.selection.quit

ConfirmationDeclined ==
    /\ HadLocation /\ ~BadRadius /\ wizard.u.gauges # <<>>
    /\ ~wizard.u.selection.quit
    /\ wizard.u.confirm = "n"

NoLocation == ~HadLocation

NoGaugesFound == HadLocation /\ ~BadRadius /\ wizard.u.gauges = <<>>

\* C15 as stated: run_wizard returns True only after it has written the file
\* with a non-empty site list following a 'y' confirmation; on every other
\* path it returns False; main reloads and goes on to monitoring after the
\* wizard only when at least one site was saved.
C15_WizardReturn ==
    /\ C15_TrueOnlyAfterSave
    /\ (WizardRan /\ wizard.ret # "True") => wizard.ret = "False"
    /\ C15_MainGoesOnOnlyAfterSave

\* C15 amended: run_wizard returns True only after a 'y' confirmation and a
\* save of a non-empty site list; it returns False when the selection is quit,
\* the confirmation is declined, there is no location or no gauge is found;
\* with a location and a radius that is no integer it raises ValueError
\* without saving, and main prints the error and returns; main goes on to
\* monitoring after the wizard only when at least one site was saved.
C15_WizardReturnsOrRaises ==
    /\ C15_TrueOnlyAfterSave
    /\ WizardRan =>
           /\ (SelectionQuit \/ ConfirmationDeclined \/ NoLocation \/ NoGaugesFound)
                  => wizard.ret = "False"
           /\ (SelectionQuit \/ ConfirmationDeclined) => ~wizard.saved
           /\ BadRadius <=> wizard.ret = "raised"
           /\ wizard.ret = "raised" => (~wizard.saved /\ mpc = "exit")
           /\ wizard.ret = "False" => mpc = "exit"
    /\ C15_MainGoesOnOnlyAfterSave

\* C15 witness: the user picked the second of two gauges and confirmed; the
\* wizard returned True, the file holds that site, and main, having reloaded
\* it, is monitoring.
C15_Witness ==
    /\ wizard.ret = "True"
    /\ wizard.u.selection.picks = <<2>>
    /\ wizard.u.confirm = "y"
    /\ config_file.MONITORING_SITES = <<"03277200">>
    /\ local_config = config_file
    /\ site_numbers = <<"03277200">>
    /\ mpc = "monitor"

====
